---------------------------- MODULE Spec2Model ----------------------------
(***************************************************************************)
(* Model of dchenk/crop-replace: the crop-variant file-name scanner        *)
(* (getCropVariant), the substring locator (stringIndexes), the crop       *)
(* matcher (the loop inside replaceContentSingle) and the content          *)
(* rewriter (replaceCrops / replaceContentSingle).                         *)
(*                                                                         *)
(* Go strings are modelled as sequences of one-character strings, so that  *)
(* indexing, slicing and prefix tests are the byte-wise operations of the  *)
(* source.  Go indexes from 0, sequences from 1: every offset the program  *)
(* returns (stringIndexes, okDiff) is kept 0-based as in the source.       *)
(***************************************************************************)
EXTENDS Integers, Sequences, FiniteSets, TLC

VARIABLES
    pc,            \* position of the run being modelled
    fileNameEnd,   \* getCropVariant: first argument
    ext,           \* getCropVariant: second argument
    dimensions,    \* getCropVariant: the returned *crop (Nil for nil)
    s,             \* stringIndexes: first argument, as passed by the caller
    substr,        \* stringIndexes: second argument
    sRest,         \* stringIndexes: the local s, re-sliced by s = s[move:]
    offset,        \* stringIndexes: local offset
    indexes,       \* stringIndexes: the named result
    inPost,        \* replaceContentSingle: local crop, parsed from the content
    haveInBucket,  \* replaceContentSingle: the attachment *file whose crops are known
    good,          \* replaceContentSingle: local good
    okDiff,        \* replaceContentSingle: local okDiff
    replacements,  \* replaceContentSingle: the map of replacement rules
    scanned,       \* replaceContentSingle: the content argument as passed
    pending,       \* replaceContentSingle: keys the range over replacements has yet to visit
    original,      \* replaceCrops: the content argument as passed
    files,         \* replaceCrops: the attachments
    fileIdx,       \* replaceCrops: loop variable i (0-based)
    content,       \* replaceCrops: the content being rewritten; replaceImageCrops: local content
    tx,            \* replaceImageCrops: the transaction tx
    update,        \* replaceImageCrops: the prepared statement update
    rows,          \* replaceImageCrops: the row cursor rows
    posts,         \* the post_content of the rows of the configured post type, in ID order
    nextRow,       \* replaceImageCrops: how many rows rows.Next has handed out
    ID,            \* replaceImageCrops: local ID
    got,           \* replaceImageCrops: local got
    execs,         \* the UPDATE statements executed in the transaction
    err,           \* replaceImageCrops: the failure met, "nil" if none
    ret,           \* replaceImageCrops: what it returned
    guids,         \* the guid of the rows of post type attachment, in ID order
    nextGuid,      \* getAttachments: how many rows rows.Next has handed out
    attachments,   \* getAttachments and main: the slice attachments
    bucket,        \* the names of the objects in the bucket, in listing order
    listed,        \* main: the objects of the bucket have been listed
    invoked        \* main: replaceImageCrops has been called

vars == <<pc, fileNameEnd, ext, dimensions, s, substr, sRest, offset, indexes,
          inPost, haveInBucket, good, okDiff, replacements, scanned, pending, original, files, fileIdx, content,
          tx, update, rows, posts, nextRow, ID, got, execs, err, ret,
          guids, nextGuid, attachments, bucket, listed, invoked>>

scanVars  == <<fileNameEnd, ext, dimensions>>
indexVars == <<s, substr, sRest, offset, indexes>>
matchVars == <<inPost, haveInBucket, good, okDiff, replacements>>
replVars  == <<scanned, pending, original, files, fileIdx, content>>
txVars    == <<tx, update, rows, posts, nextRow, ID, got, execs, err, ret>>
mainVars  == <<guids, nextGuid, attachments, bucket, listed, invoked>>

(***************************************************************************)
(* Bounds of the model.                                                    *)
(***************************************************************************)
MaxLen == 6          \* longest exhaustively enumerated scanner input
MaxStr == 6          \* longest exhaustively enumerated string searched by stringIndexes
MaxSubstr == 3       \* longest exhaustively enumerated stem searched for
MaxIndexes == 8      \* cap on the offsets appended by a loop that never returns
MaxCrops == 3        \* longest known-crop list handed to the matcher
MaxFiles == 2        \* longest attachment list handed to replaceCrops
MaxSegments == 2     \* most pieces of text a content string is put together from
MaxPosts == 2        \* most content rows replaceImageCrops reads
MaxGuids == 2        \* most attachment rows getAttachments reads

(***************************************************************************)
(* Strings.                                                                *)
(***************************************************************************)
Nil == [nil |-> TRUE]

DigitChars == <<"0", "1", "2", "3", "4", "5", "6", "7", "8", "9">>

IsDigit(c) == \E k \in 1..10 : DigitChars[k] = c

DigitVal(c) == (CHOOSE k \in 1..10 : DigitChars[k] = c) - 1

\* strings.HasPrefix(str, prefix)
HasPrefix(str, prefix) ==
    /\ Len(prefix) <= Len(str)
    /\ \A k \in 1..Len(prefix) : str[k] = prefix[k]

\* str[from:] with a 0-based from
SliceFrom(str, from) == SubSeq(str, from + 1, Len(str))

\* All strings over alphabet of length at most n.
StringsUpTo(alphabet, n) == UNION {[1..k -> alphabet] : k \in 0..n}


(***************************************************************************)
(* strconv.ParseUint(digits, 10, 64) on a non-empty run of ASCII digits    *)
(* (the only arguments getCropVariant passes).  It fails with a range      *)
(* error exactly when the value exceeds 2^64 - 1.  The value 2^64 - 1 is   *)
(* compared digit by digit, so that no number above the 64-bit range is    *)
(* ever built.                                                             *)
(***************************************************************************)
MaxUint64Digits ==
    <<"1","8","4","4","6","7","4","4","0","7","3","7","0","9","5","5","1","6","1","5">>

RECURSIVE StripZeros(_)
StripZeros(digits) ==
    IF Len(digits) > 1 /\ digits[1] = "0" THEN StripZeros(Tail(digits)) ELSE digits

\* lexicographic a > b for digit strings of equal length
RECURSIVE DigitsGreater(_, _)
DigitsGreater(a, b) ==
    IF a = <<>> THEN FALSE
    ELSE IF DigitVal(a[1]) # DigitVal(b[1]) THEN DigitVal(a[1]) > DigitVal(b[1])
    ELSE DigitsGreater(Tail(a), Tail(b))

ExceedsUint64(digits) ==
    LET d == StripZeros(digits) IN
    \/ Len(d) > Len(MaxUint64Digits)
    \/ Len(d) = Len(MaxUint64Digits) /\ DigitsGreater(d, MaxUint64Digits)

\* DecimalValue without the shift of the accumulated value by one decimal place
RECURSIVE DecimalValue_NoShift(_, _)
DecimalValue_NoShift(digits, n) ==
    IF digits = <<>> THEN n
    ELSE DecimalValue_NoShift(Tail(digits), n + DigitVal(digits[1]))

\* the loop n = n*10 + d of ParseUint
RECURSIVE DecimalValue(_, _)
DecimalValue(digits, n) ==
    IF digits = <<>> THEN n
    ELSE DecimalValue(Tail(digits), n * 10 + DigitVal(digits[1]))

ParseUint(digits) ==
    IF ExceedsUint64(digits) THEN [err |-> TRUE]
    ELSE [err |-> FALSE, val |-> DecimalValue(digits, 0)]

(***************************************************************************)
(* getCropVariant (the scanner).  charLoop is the labelled for loop; i is  *)
(* the 1-based position of the byte the Go loop reads at i - 1.  The loop  *)
(* yields [fail |-> TRUE] for a return nil from inside the loop, else the  *)
(* collected wBytes and hBytes.                                            *)
(***************************************************************************)
RECURSIVE charLoop(_, _, _, _, _, _)
charLoop(str, i, wBytes, hBytes, wSet, hSet) ==
    IF i > Len(str) THEN [fail |-> FALSE, w |-> wBytes, h |-> hBytes]
    ELSE LET c == str[i] IN
         IF wSet /\ hSet THEN [fail |-> FALSE, w |-> wBytes, h |-> hBytes]
         ELSE IF IsDigit(c) THEN
                  IF ~wSet THEN charLoop(str, i + 1, Append(wBytes, c), hBytes, wSet, hSet)
                  ELSE IF ~hSet THEN charLoop(str, i + 1, wBytes, Append(hBytes, c), wSet, hSet)
                  ELSE [fail |-> TRUE]
         ELSE IF c = "x" THEN charLoop(str, i + 1, wBytes, hBytes, TRUE, hSet)
         ELSE IF c = "." THEN charLoop(str, i + 1, wBytes, hBytes, wSet, TRUE)
         ELSE [fail |-> TRUE]

\* getCropVariant without the final strings.HasPrefix confirmation
getCropVariant_NoPrefixCheck(str, e) ==
    IF str = <<>> \/ str[1] # "-" THEN Nil
    ELSE LET scan == charLoop(str, 2, <<>>, <<>>, FALSE, FALSE) IN
         IF scan.fail THEN Nil
         ELSE IF Len(scan.w) = 0 \/ Len(scan.h) = 0 THEN Nil
         ELSE LET width  == ParseUint(scan.w)
                  height == ParseUint(scan.h)
              IN IF width.err THEN Nil
                 ELSE IF height.err THEN Nil
                 ELSE [str |-> scan.w \o <<"x">> \o scan.h,
                       width |-> width.val, height |-> height.val]

\* getCropVariant requiring the extension to end the string (a suffix test
\* in place of the prefix test)
getCropVariant_ExtEndsString(str, e) ==
    IF str = <<>> \/ str[1] # "-" THEN Nil
    ELSE LET scan == charLoop(str, 2, <<>>, <<>>, FALSE, FALSE) IN
         IF scan.fail THEN Nil
         ELSE IF Len(scan.w) = 0 \/ Len(scan.h) = 0 THEN Nil
         ELSE IF str # <<"-">> \o scan.w \o <<"x">> \o scan.h \o e THEN Nil
         ELSE LET width  == ParseUint(scan.w)
                  height == ParseUint(scan.h)
              IN IF width.err THEN Nil
                 ELSE IF height.err THEN Nil
                 ELSE [str |-> scan.w \o <<"x">> \o scan.h,
                       width |-> width.val, height |-> height.val]

getCropVariant(str, e) ==
    IF str = <<>> \/ str[1] # "-" THEN Nil
    ELSE LET scan == charLoop(str, 2, <<>>, <<>>, FALSE, FALSE) IN
         IF scan.fail THEN Nil
         ELSE IF Len(scan.w) = 0 \/ Len(scan.h) = 0 THEN Nil
         ELSE IF ~HasPrefix(str, <<"-">> \o scan.w \o <<"x">> \o scan.h \o e) THEN Nil
         ELSE LET width  == ParseUint(scan.w)
                  height == ParseUint(scan.h)
              IN IF width.err THEN Nil
                 ELSE IF height.err THEN Nil
                 ELSE [str |-> scan.w \o <<"x">> \o scan.h,
                       width |-> width.val, height |-> height.val]

(***************************************************************************)
(* Inputs of the scanner run: every string of at most MaxLen bytes over    *)
(* ScanAlphabet with each extension of ScanExts, and the longer sample     *)
(* inputs of ScanSamples (cases of TestGetCropVariant and digit runs       *)
(* beyond the 64-bit range).                                               *)
(***************************************************************************)
ScanAlphabet == {"-", "x", ".", "p", "0", "1"}

ScanExts == {<<".">>, <<".", "p">>}

Nines20 == [k \in 1..20 |-> "9"]

ScanSamples ==
    { [s |-> <<"-","6","0","0","x","3","4","0",".","p","n","g">>, ext |-> <<".","p","n","g">>],
      [s |-> <<"-","6","0","0","x","3","4","0",".","p","n","g","_","m","o","r","e">>,
       ext |-> <<".","p","n","g">>],
      [s |-> <<"-","5","0","0","x","3","7","0",".","j","p","g","'","=","a">>,
       ext |-> <<".","j","p","g">>],
      [s |-> <<"-","8","5","0","x","1","0","8","0","x","9","0","0",".","j","p","g">>,
       ext |-> <<".","j","p","g">>],
      [s |-> <<"-","8","5","0","x","1","0","8","0",".","9","0","0",".","j","p","g">>,
       ext |-> <<".","j","p","g">>],
      [s |-> <<"-","1","0","2","4","x","7","6","8",".","j","p","e","g">>,
       ext |-> <<".","p","n","g">>],
      [s |-> <<"_","1","0","2","4","x","7","6","8",".","j","p","e","g">>,
       ext |-> <<".","j","p","e","g">>],
      [s |-> <<"-">> \o Nines20 \o <<"x","1",".","p">>, ext |-> <<".","p">>],
      [s |-> <<"-","1","x">> \o MaxUint64Digits \o <<"9",".","p","x">>, ext |-> <<".","p">>],
      [s |-> <<"-","0","0">> \o Nines20 \o <<"x","1",".","p","-">>, ext |-> <<".","p">>] }

ScanInputs ==
    {[s |-> str, ext |-> e] : str \in StringsUpTo(ScanAlphabet, MaxLen), e \in ScanExts}
        \cup ScanSamples

Idle == "idle"

\* the variables of the database run, outside it
DbIdle ==
    /\ tx = "none" /\ update = "nil" /\ rows = "nil" /\ posts = <<>> /\ nextRow = 0
    /\ ID = 0 /\ got = Idle /\ execs = <<>> /\ err = "nil" /\ ret = "none"
    /\ guids = <<>> /\ nextGuid = 0 /\ attachments = <<>> /\ bucket = <<>>
    /\ listed = FALSE /\ invoked = FALSE

InitScan ==
    /\ DbIdle
    /\ pc = "scan"
    /\ \E in \in ScanInputs : fileNameEnd = in.s /\ ext = in.ext
    /\ dimensions = Nil
    /\ s = Idle /\ substr = Idle /\ sRest = Idle /\ offset = 0 /\ indexes = <<>>
    /\ inPost = Idle /\ haveInBucket = Idle /\ good = FALSE /\ okDiff = -1
    /\ replacements = <<>>
    /\ scanned = Idle /\ pending = {}
    /\ original = Idle /\ files = <<>> /\ fileIdx = 0 /\ content = Idle

\* one call dimensions := getCropVariant(fileNameEnd, ext)
CallGetCropVariant ==
    /\ pc = "scan"
    /\ dimensions' = getCropVariant(fileNameEnd, ext)
    /\ pc' = "scanned"
    /\ UNCHANGED <<txVars, mainVars, fileNameEnd, ext, indexVars, matchVars, replVars>>

NextScan == CallGetCropVariant

SpecScan == InitScan /\ [][NextScan]_vars

(***************************************************************************)
(* The grammar of a crop suffix, stated on the text alone.                 *)
(***************************************************************************)
AllDigits(str) == \A k \in 1..Len(str) : IsDigit(str[k])

\* str = "-" W "x" H e ..., W = str[2..a], H = str[a+2..b], both non-empty digit runs
CropPrefix(str, e, a, b) ==
    /\ 2 <= a /\ a + 2 <= b /\ b + Len(e) <= Len(str)
    /\ str[1] = "-"
    /\ AllDigits(SubSeq(str, 2, a))
    /\ str[a + 1] = "x"
    /\ AllDigits(SubSeq(str, a + 2, b))
    /\ SubSeq(str, b + 1, b + Len(e)) = e

HasCropPrefix(str, e) ==
    \E a \in 1..Len(str), b \in 1..Len(str) : CropPrefix(str, e, a, b)

\* the same, with both digit runs denoting values of at most 2^64 - 1
HasCropPrefix64(str, e) ==
    \E a \in 1..Len(str), b \in 1..Len(str) :
        /\ CropPrefix(str, e, a, b)
        /\ ~ExceedsUint64(SubSeq(str, 2, a))
        /\ ~ExceedsUint64(SubSeq(str, a + 2, b))

\* base-10 value of a digit run, from its last digit
RECURSIVE Base10(_)
Base10(digits) ==
    IF digits = <<>> THEN 0
    ELSE 10 * Base10(SubSeq(digits, 1, Len(digits) - 1)) + DigitVal(digits[Len(digits)])

\* C1 as stated: getCropVariant(s, ext) returns a crop if and only if s has a
\* prefix "-" W "x" H ext with W and H non-empty runs of ASCII digits, whatever
\* their length.
C1_AcceptsIffCropPrefix ==
    pc = "scanned" => (dimensions # Nil <=> HasCropPrefix(fileNameEnd, ext))

\* C1 amended: getCropVariant(s, ext) returns a crop if and only if s has a
\* prefix "-" W "x" H ext with W and H non-empty runs of ASCII digits whose
\* base-10 values are at most 2^64 - 1; it returns nil for every other s.
C1_AcceptsIffCropPrefix64 ==
    pc = "scanned" => (dimensions # Nil <=> HasCropPrefix64(fileNameEnd, ext))

\* a crop was returned for a suffix with a two-digit width
C1_Witness ==
    /\ pc = "scanned"
    /\ dimensions # Nil
    /\ dimensions.width >= 10

\* C2 as stated: for all non-empty digit runs W and H, getCropVariant of
\* "-" W "x" H ext rest is non-nil and equals getCropVariant of "-" W "x" H ext.
C2_TrailingTextIgnored ==
    pc = "scanned" =>
        \A a \in 1..Len(fileNameEnd), b \in 1..Len(fileNameEnd) :
            CropPrefix(fileNameEnd, ext, a, b) =>
                /\ dimensions # Nil
                /\ dimensions = getCropVariant(SubSeq(fileNameEnd, 1, b + Len(ext)), ext)

\* C2 amended: getCropVariant of "-" W "x" H ext rest equals getCropVariant of
\* "-" W "x" H ext for every rest, and is non-nil whenever the values of W and H
\* are at most 2^64 - 1.
C2_TrailingTextIgnored64 ==
    pc = "scanned" =>
        \A a \in 1..Len(fileNameEnd), b \in 1..Len(fileNameEnd) :
            CropPrefix(fileNameEnd, ext, a, b) =>
                /\ dimensions = getCropVariant(SubSeq(fileNameEnd, 1, b + Len(ext)), ext)
                /\ (~ExceedsUint64(SubSeq(fileNameEnd, 2, a))
                      /\ ~ExceedsUint64(SubSeq(fileNameEnd, a + 2, b))) => dimensions # Nil

\* a crop was returned for a suffix that goes on after the extension
C2_Witness ==
    /\ pc = "scanned"
    /\ dimensions # Nil
    /\ Len(fileNameEnd) > 1 + Len(dimensions.str) + Len(ext)

\* C3: a returned crop holds the base-10 values of the two digit runs, its str
\* is <width digits> "x" <height digits>, and "-" str ext is a prefix of s.
C3_CropMatchesText ==
    (pc = "scanned" /\ dimensions # Nil) =>
        \E a \in 1..Len(fileNameEnd), b \in 1..Len(fileNameEnd) :
            /\ CropPrefix(fileNameEnd, ext, a, b)
            /\ dimensions.width = Base10(SubSeq(fileNameEnd, 2, a))
            /\ dimensions.height = Base10(SubSeq(fileNameEnd, a + 2, b))
            /\ dimensions.str = SubSeq(fileNameEnd, 2, b)
            /\ HasPrefix(fileNameEnd, <<"-">> \o dimensions.str \o ext)

\* a crop with a multi-digit width different from its height was returned
C3_Witness ==
    /\ pc = "scanned"
    /\ dimensions # Nil
    /\ dimensions.width >= 10
    /\ dimensions.height # dimensions.width
    /\ dimensions.height > 0

\* C21: every crop getCropVariant returns has width > 0 and height > 0.
C21_PositiveDimensions ==
    (pc = "scanned" /\ dimensions # Nil) =>
        dimensions.width > 0 /\ dimensions.height > 0

(***************************************************************************)
(* stringIndexes (the substring locator).                                  *)
(***************************************************************************)
\* str[k:k+len(sub)] == sub, for a 0-based k
OccursAt(str, sub, k) ==
    /\ k + Len(sub) <= Len(str)
    /\ SubSeq(str, k + 1, k + Len(sub)) = sub

\* strings.Index(str, sub): the 0-based offset of the first occurrence, -1 if
\* there is none; the empty string occurs at offset 0 of every string.
Index(str, sub) ==
    IF \E k \in 0..Len(str) : OccursAt(str, sub, k)
    THEN CHOOSE k \in 0..Len(str) :
             OccursAt(str, sub, k) /\ \A j \in 0..(k - 1) : ~OccursAt(str, sub, j)
    ELSE -1

\* move restarting the search one byte after the start of the match
move_PastFirstByte(i, sub) == i + 1

\* move := i + len(substr)
move(i, sub) == i + Len(sub)

\* One iteration of the for loop on the locals [s, offset, indexes]:
\* either the return (done) or the locals at the next loop head.
loopBody(st, sub) ==
    LET i == Index(st.s, sub) IN
    IF i = -1 THEN [done |-> TRUE, s |-> st.s, offset |-> st.offset, indexes |-> st.indexes]
    ELSE [done    |-> FALSE,
          s       |-> SliceFrom(st.s, move(i, sub)),
          offset  |-> st.offset + move(i, sub),
          indexes |-> Append(st.indexes, st.offset + i)]

\* The whole call, for a stem that is not empty (with an empty stem the loop
\* never returns: strings.Index yields 0, move is 0 and the locals s and
\* offset stay as they are).
RECURSIVE forLoop(_, _)
forLoop(st, sub) ==
    LET nxt == loopBody(st, sub) IN
    IF nxt.done THEN nxt.indexes
    ELSE forLoop([s |-> nxt.s, offset |-> nxt.offset, indexes |-> nxt.indexes], sub)

stringIndexes(str, sub) == forLoop([s |-> str, offset |-> 0, indexes |-> <<>>], sub)

IndexAlphabet == {"a", "b"}

IndexSamples ==
    { [s |-> <<"a","a","b","g","a","a">>, substr |-> <<"a","a">>],
      [s |-> <<"a","a","a","b","c">>, substr |-> <<"a","a">>],
      [s |-> <<"r","r","a","b","c","a","a","b","c","d">>, substr |-> <<"a","b","c">>],
      [s |-> <<"r","r","a","b","a","a","b","c","d">>, substr |-> <<"a","b","c">>],
      [s |-> <<"a","b","c">>, substr |-> <<"n">>] }

IndexInputs ==
    {[s |-> str, substr |-> sub] :
        str \in StringsUpTo(IndexAlphabet, MaxStr), sub \in StringsUpTo(IndexAlphabet, MaxSubstr)}
        \cup IndexSamples

InitIndexes ==
    /\ DbIdle
    /\ pc = "loop"
    /\ \E in \in IndexInputs : s = in.s /\ substr = in.substr /\ sRest = in.s
    /\ offset = 0
    /\ indexes = <<>>
    /\ fileNameEnd = Idle /\ ext = Idle /\ dimensions = Nil
    /\ inPost = Idle /\ haveInBucket = Idle /\ good = FALSE /\ okDiff = -1
    /\ replacements = <<>>
    /\ scanned = Idle /\ pending = {}
    /\ original = Idle /\ files = <<>> /\ fileIdx = 0 /\ content = Idle

\* an iteration that finds substr: append, advance, loop again
LoopFound ==
    /\ pc = "loop"
    /\ Len(indexes) < MaxIndexes
    /\ LET nxt == loopBody([s |-> sRest, offset |-> offset, indexes |-> indexes], substr) IN
        /\ ~nxt.done
        /\ sRest' = nxt.s
        /\ offset' = nxt.offset
        /\ indexes' = nxt.indexes
    /\ UNCHANGED <<txVars, mainVars, pc, s, substr, scanVars, matchVars, replVars>>

\* the iteration that finds nothing: return
LoopReturn ==
    /\ pc = "loop"
    /\ loopBody([s |-> sRest, offset |-> offset, indexes |-> indexes], substr).done
    /\ pc' = "indexed"
    /\ UNCHANGED <<txVars, mainVars, indexVars, scanVars, matchVars, replVars>>

NextIndexes == LoopFound \/ LoopReturn

SpecIndexes == InitIndexes /\ [][NextIndexes]_vars

\* C4: for a non-empty substr the offsets returned are the greedy left-to-right
\* non-overlapping occurrences in the original s: each is an occurrence, the
\* first is the first occurrence in s, each next one is the first occurrence at
\* or after the end of the previous match, and no occurrence follows the end of
\* the last match.
C4_GreedyNonOverlapping ==
    (pc = "indexed" /\ substr # <<>>) =>
        /\ \A j \in 1..Len(indexes) :
              LET from == IF j = 1 THEN 0 ELSE indexes[j - 1] + Len(substr) IN
              /\ OccursAt(s, substr, indexes[j])
              /\ indexes[j] >= from
              /\ \A k \in from..(indexes[j] - 1) : ~OccursAt(s, substr, k)
        /\ LET from == IF indexes = <<>> THEN 0
                       ELSE indexes[Len(indexes)] + Len(substr) IN
           \A k \in from..Len(s) : ~OccursAt(s, substr, k)

\* two offsets were returned and an overlapping occurrence one byte after the
\* first match was passed over
C4_Witness ==
    /\ pc = "indexed"
    /\ Len(substr) >= 2
    /\ Len(indexes) >= 2
    /\ OccursAt(s, substr, indexes[1] + 1)

\* C5: stringIndexes terminates for every pair of inputs, the empty stem
\* included: every iteration of the loop that does not return shortens the text
\* still to be searched, so the loop returns after at most len(s) + 1 iterations.
C5_EveryIterationConsumes ==
    [][LoopFound => Len(sRest') < Len(sRest)]_vars

(***************************************************************************)
(* The crop matcher: the body of "if crop != nil" in replaceContentSingle. *)
(***************************************************************************)
\* const widthDiffTolerance float64 = 35.0
widthDiffTolerance == 35

\* crop.width - existing.width on uint64: a negative difference wraps to
\* 2^64 - (existing.width - crop.width), which is not built here.
uint64Sub(a, b) ==
    IF a >= b THEN [wrapped |-> FALSE, val |-> a - b]
    ELSE [wrapped |-> TRUE, short |-> b - a]

\* math.Abs(float64(crop.width-existing.width)/float64(crop.width))*100.0 <= widthDiffTolerance
\*   crop.width = 0: the quotient is NaN (0/0) or +Inf, and the comparison is false;
\*   a wrapped difference exceeds crop.width, the quotient is at least 1 and
\*   the product at least 100;
\*   otherwise d/w*100 <= 35 is decided as 100*d <= 35*w (exact for the widths
\*   of the model, far below 2^53).
withinTolerance(cropWidth, existingWidth) ==
    LET d == uint64Sub(cropWidth, existingWidth) IN
    IF cropWidth = 0 THEN FALSE
    ELSE IF d.wrapped THEN FALSE
    ELSE 100 * d.val <= widthDiffTolerance * cropWidth

\* crop.width == existing.width && crop.height == existing.height
sameDimensions(crop, existing) ==
    crop.width = existing.width /\ crop.height = existing.height

\* the loop with the tolerance test ahead of the exact test
RECURSIVE rangeCrops_ToleranceFirst(_, _, _, _)
rangeCrops_ToleranceFirst(crop, crops, i, ok) ==
    IF i >= Len(crops) THEN [good |-> FALSE, okDiff |-> ok]
    ELSE LET existing == crops[i + 1]
             ok2 == IF withinTolerance(crop.width, existing.width) THEN i ELSE ok
         IN IF sameDimensions(crop, existing) THEN [good |-> TRUE, okDiff |-> ok2]
            ELSE rangeCrops_ToleranceFirst(crop, crops, i + 1, ok2)

\* for i := range file.crops { ... }, from index i (0-based) with okDiff = ok;
\* yields the locals good and okDiff after the loop
RECURSIVE rangeCrops(_, _, _, _)
rangeCrops(crop, crops, i, ok) ==
    IF i >= Len(crops) THEN [good |-> FALSE, okDiff |-> ok]
    ELSE LET existing == crops[i + 1] IN
         IF sameDimensions(crop, existing) THEN [good |-> TRUE, okDiff |-> ok]
         ELSE rangeCrops(crop, crops, i + 1,
                         IF withinTolerance(crop.width, existing.width) THEN i ELSE ok)

\* file.fileName[:len(file.fileName)-len(file.ext)]
stem(file) == SubSeq(file.fileName, 1, Len(file.fileName) - Len(file.ext))

\* replacements[old] = new on a Go map (a function from keys to values)
mapSet(m, old, new) ==
    [k \in (DOMAIN m) \cup {old} |-> IF k = old THEN new ELSE m[k]]

EmptyMap == [k \in {} |-> <<>>]

\* The body of "if crop != nil": the matcher loop and the rule it records.
\* Both branches of "if okDiff > -1" assign file.fileName.
matchCrop(rules, file, crop) ==
    LET m == rangeCrops(crop, file.crops, 0, -1) IN
    [good |-> m.good,
     okDiff |-> m.okDiff,
     replacements |->
        IF ~m.good
        THEN LET old == stem(file) \o crop.str \o file.ext IN
             IF m.okDiff > -1 THEN mapSet(rules, old, file.fileName)
             ELSE mapSet(rules, old, file.fileName)
        ELSE rules]

\* Known crops and references: widths 0, 324, 325 (35.2% and 35% below 500),
\* 400, 500, 510, heights 450 and 460.
WidthDigits == { <<"0">>, <<"3","2","4">>, <<"3","2","5">>, <<"4","0","0">>,
                 <<"5","0","0">>, <<"5","1","0">> }

HeightDigits == { <<"4","5","0">>, <<"4","6","0">> }

CropPool ==
    { [str |-> w \o <<"x">> \o h, width |-> DecimalValue(w, 0), height |-> DecimalValue(h, 0)] :
        w \in WidthDigits, h \in HeightDigits }

SeqsUpTo(set, n) == UNION {[1..k -> set] : k \in 0..n}

InitMatch ==
    /\ DbIdle
    /\ pc = "match"
    /\ inPost \in CropPool
    /\ \E crops \in SeqsUpTo(CropPool, MaxCrops) :
          haveInBucket = [fileName |-> <<"b","c","d",".","p","n","g">>,
                          ext |-> <<".","p","n","g">>, crops |-> crops]
    /\ good = FALSE /\ okDiff = -1
    /\ replacements = EmptyMap
    /\ fileNameEnd = Idle /\ ext = Idle /\ dimensions = Nil
    /\ s = Idle /\ substr = Idle /\ sRest = Idle /\ offset = 0 /\ indexes = <<>>
    /\ scanned = Idle /\ pending = {}
    /\ original = Idle /\ files = <<>> /\ fileIdx = 0 /\ content = Idle

\* one pass through the body of "if crop != nil" for crop = inPost
MatchCrop ==
    /\ pc = "match"
    /\ LET m == matchCrop(replacements, haveInBucket, inPost) IN
        /\ good' = m.good
        /\ okDiff' = m.okDiff
        /\ replacements' = m.replacements
    /\ pc' = "matched"
    /\ UNCHANGED <<txVars, mainVars, inPost, haveInBucket, scanVars, indexVars, replVars>>

NextMatch == MatchCrop

SpecMatch == InitMatch /\ [][NextMatch]_vars

ExactAt(k) == sameDimensions(inPost, haveInBucket.crops[k])

NoExact == \A k \in 1..Len(haveInBucket.crops) : ~ExactAt(k)

\* the claimed close-match test: 100 * |rw - cw| <= 35 * rw, for rw > 0
SymmetricTolerance(rw, cw) ==
    100 * (IF rw >= cw THEN rw - cw ELSE cw - rw) <= 35 * rw

\* C8 as stated: when a known crop has the width and height of the reference,
\* good is true, okDiff is -1 and no replacement rule is recorded, wherever the
\* exact crop sits in the list.
C8_ExactMeansNoReplacement ==
    (pc = "matched" /\ ~NoExact) =>
        /\ good
        /\ okDiff = -1
        /\ replacements = EmptyMap

\* C8 amended: when a known crop has the width and height of the reference,
\* good is true and no replacement rule is recorded, wherever the exact crop
\* sits in the list; okDiff is -1 exactly when no crop listed before the first
\* exact one passes the width test, and otherwise is the index of the last crop
\* listed before it that passes.
C8_ExactMeansNoRule ==
    (pc = "matched" /\ ~NoExact) =>
        LET first == CHOOSE k \in 1..Len(haveInBucket.crops) :
                         ExactAt(k) /\ \A j \in 1..(k - 1) : ~ExactAt(j)
            passing == {j \in 1..(first - 1) :
                           withinTolerance(inPost.width, haveInBucket.crops[j].width)}
        IN /\ good
           /\ replacements = EmptyMap
           /\ (okDiff = -1 <=> passing = {})
           /\ passing # {} =>
                 /\ okDiff + 1 \in passing
                 /\ \A j \in passing : j <= okDiff + 1

\* an exact crop listed after a narrower crop within the tolerance
C8_Witness ==
    /\ pc = "matched"
    /\ good
    /\ okDiff = 0
    /\ Len(haveInBucket.crops) >= 2
    /\ ExactAt(2)
    /\ haveInBucket.crops[1].width < inPost.width

\* C9: with no exact match, a known crop of width cw qualifies for a reference
\* of width rw > 0 if and only if 100 * |rw - cw| <= 35 * rw, narrower or wider:
\* a close candidate is reported exactly when some known crop qualifies, and
\* the one reported qualifies.
C9_SymmetricTolerance ==
    (pc = "matched" /\ ~good /\ inPost.width > 0) =>
        /\ okDiff # -1 <=>
              \E k \in 1..Len(haveInBucket.crops) :
                  SymmetricTolerance(inPost.width, haveInBucket.crops[k].width)
        /\ okDiff # -1 =>
              SymmetricTolerance(inPost.width, haveInBucket.crops[okDiff + 1].width)

\* C10: with no exact match and several known crops within the width tolerance,
\* the crop selected is the one with the greatest index among them.
C10_LastQualifyingWins ==
    (pc = "matched" /\ ~good /\ inPost.width > 0) =>
        LET qualifying == {k \in 1..Len(haveInBucket.crops) :
                              SymmetricTolerance(inPost.width, haveInBucket.crops[k].width)}
        IN Cardinality(qualifying) >= 2 =>
              /\ okDiff + 1 \in qualifying
              /\ \A k \in qualifying : k <= okDiff + 1

\* C11: with no exact match and some known crop within the width tolerance,
\* good is false and the index returned is that of a within-tolerance crop such
\* that no within-tolerance crop listed before it is closer in width to the
\* reference; reference 500x450 against [510x460, 400x...] yields index 0.
C11_EarlierCloserCropKept ==
    (pc = "matched" /\ NoExact /\ inPost.width > 0) =>
        LET dist(k) == IF inPost.width >= haveInBucket.crops[k].width
                       THEN inPost.width - haveInBucket.crops[k].width
                       ELSE haveInBucket.crops[k].width - inPost.width
            qualifying == {k \in 1..Len(haveInBucket.crops) :
                              SymmetricTolerance(inPost.width, haveInBucket.crops[k].width)}
        IN qualifying # {} =>
              /\ ~good
              /\ okDiff + 1 \in qualifying
              /\ \A j \in qualifying : j < okDiff + 1 => dist(j) >= dist(okDiff + 1)

(***************************************************************************)
(* The content rewriter: replaceCrops and replaceContentSingle.            *)
(***************************************************************************)
\* strings.Replace(str, old, new, -1) for a non-empty old: every
\* non-overlapping instance of old, left to right
RECURSIVE Replace(_, _, _)
Replace(str, old, new) ==
    IF Len(str) < Len(old) THEN str
    ELSE IF HasPrefix(str, old) THEN new \o Replace(SliceFrom(str, Len(old)), old, new)
    ELSE <<str[1]>> \o Replace(Tail(str), old, new)

\* rangeIndexes reading dimensions that follow the stem with no "-" between
RECURSIVE rangeIndexes_NoDash(_, _, _, _, _)
rangeIndexes_NoDash(text, file, idxs, k, rules) ==
    IF k > Len(idxs) THEN rules
    ELSE LET crop == getCropVariant(<<"-">> \o SliceFrom(text, idxs[k] + Len(stem(file))),
                                    file.ext) IN
         rangeIndexes_NoDash(text, file, idxs, k + 1,
                             IF crop # Nil THEN matchCrop(rules, file, crop).replacements
                             ELSE rules)

\* for _, indx := range stringIndexes(content, trimmed) { ... }: the rules
\* collected from the offsets idxs[k..], added to rules
RECURSIVE rangeIndexes(_, _, _, _, _)
rangeIndexes(text, file, idxs, k, rules) ==
    IF k > Len(idxs) THEN rules
    ELSE LET crop == getCropVariant(SliceFrom(text, idxs[k] + Len(stem(file))), file.ext) IN
         rangeIndexes(text, file, idxs, k + 1,
                      IF crop # Nil THEN matchCrop(rules, file, crop).replacements
                      ELSE rules)

\* the first loop of replaceContentSingle: the map replacements it fills
collectReplacements(text, file) ==
    rangeIndexes(text, file, stringIndexes(text, stem(file)), 1, EmptyMap)

\* the second loop of replaceContentSingle, "for origFile, newFile := range
\* replacements": the texts it can end with, one for each order in which the
\* keys of the map can be visited
RECURSIVE rangeReplacements(_, _, _)
rangeReplacements(text, rules, keys) ==
    IF keys = {} THEN {text}
    ELSE UNION {rangeReplacements(Replace(text, origFile, rules[origFile]), rules,
                                  keys \ {origFile}) : origFile \in keys}

\* replaceContentSingle(content, file): the texts it can return
replaceContentSingle(text, file) ==
    rangeReplacements(text, collectReplacements(text, file),
                      DOMAIN collectReplacements(text, file))

\* "for i := range files { content = replaceContentSingle(content, &files[i]) }"
\* from files[i] on, started on any of texts
RECURSIVE rangeFiles(_, _, _)
rangeFiles(texts, fs, i) ==
    IF i > Len(fs) THEN texts
    ELSE rangeFiles(UNION {replaceContentSingle(text, fs[i]) : text \in texts}, fs, i + 1)

\* replaceCrops(content, files): the texts it can return
replaceCrops(text, fs) == rangeFiles({text}, fs, 1)

\* The attachments of TestReplaceCrops.  Every stem is non-empty, as
\* getAttachments makes it (a file name starts with "/", an extension with ".").
att_abc == [fileName |-> <<"a","b","c",".","p","n","g">>, ext |-> <<".","p","n","g">>, crops |-> <<>>]

att_bcd ==
    [fileName |-> <<"b","c","d",".","p","n","g">>, ext |-> <<".","p","n","g">>,
     crops |-> << [str |-> <<"2","0","0","x","1","8","0">>, width |-> 200, height |-> 180],
                  [str |-> <<"4","0","0","x","3","2","0">>, width |-> 400, height |-> 320] >>]

att_rjj ==
    [fileName |-> <<"r","j","j",".","j","p","e","g">>, ext |-> <<".","j","p","e","g">>,
     crops |-> << [str |-> <<"6","0","0","x","4","5","0">>, width |-> 600, height |-> 450] >>]

AttachmentPool == {att_abc, att_bcd, att_rjj}

\* attachment lists without repetition (file names are unique)
FileLists ==
    {fs \in SeqsUpTo(AttachmentPool, MaxFiles) :
        /\ Len(fs) >= 1
        /\ \A i \in 1..Len(fs), j \in 1..Len(fs) : i # j => fs[i] # fs[j]}

\* The pieces content is put together from: the texts of TestReplaceCrops, an
\* exact reference, and a name that runs stem and dimensions together.
SegmentPool ==
    { <<"a","b","c",".","p","n","g">>,
      <<"a","b","c","-","4","0","0","x","3","0","0",".","p","n","g">>,
      <<"b","c","d","-","3","0","x","1","5",".","p","n","g">>,
      <<"b","c","d","-","2","1","0","x","1","9","5",".","p","n","g">>,
      <<"b","c","d","-","5","2","0","x","3","0","5",".","p","n","g">>,
      <<"j","k","l","j","k","-","2","1","0","x","1","9","5",".","p","n","g">>,
      <<"H","E","L","L","O"," ","W","O","R","L","D"," ">>,
      <<"\t","T","e","x","t">>,
      <<"b","c","d","-","2","0","0","x","1","8","0",".","p","n","g">>,
      <<"b","c","d","2","1","0","x","1","9","5",".","p","n","g">>,
      <<"r","j","j","-","6","0","0","x","4","5","0",".","j","p","e","g">> }

RECURSIVE Concat(_)
Concat(segs) == IF segs = <<>> THEN <<>> ELSE Head(segs) \o Concat(Tail(segs))

Contents == {Concat(segs) : segs \in SeqsUpTo(SegmentPool, MaxSegments)}

\* Attachments whose names run into each other: a file named like another
\* file's stem followed by dimensions, a stem that is a single digit, and a file
\* in a directory named like the file's own crop (the file name is the guid
\* after the configured prefix, directories included).
att_a == [fileName |-> <<"a",".","p">>, ext |-> <<".","p">>, crops |-> <<>>]

att_a1x1 == [fileName |-> <<"a","1","x","1",".","p">>, ext |-> <<".","p">>, crops |-> <<>>]

att_1 == [fileName |-> <<"1",".","p">>, ext |-> <<".","p">>, crops |-> <<>>]

att_dir == [fileName |-> <<"/","a","1","x","1",".","p","/","a",".","p">>, ext |-> <<".","p">>, crops |-> <<>>]

\* contents that hold references to those attachments next to names that
\* run stem and dimensions together, and a reference to a crop of bcd.png
\* written with a leading zero
RewriteSamples ==
    {
      [original |-> <<"b","c","d","-","0","2","0","0","x","1","8","0",".","p","n","g">>,
       files |-> <<att_bcd>>],
      [original |-> <<"a","1","x","1","2","x","2",".","p"," ","a","-","1","x","1",".","p"," ","a","1","x","1","-","2","x","2",".","p">>,
       files |-> <<att_a, att_a1x1>>],
      [original |-> <<"a","1","x","1","2","x","2",".","p"," ","a","-","1","x","1",".","p"," ","a","1","x","1","-","2","x","2",".","p">>,
       files |-> <<att_a1x1, att_a>>],
      [original |-> <<"1","2","x","1","1","x","1",".","p"," ","1","-","1","x","1",".","p"," ","1","-","2","x","1",".","p">>,
       files |-> <<att_1>>],
      [original |-> <<"/","a","1","x","1",".","p","/","a","1","x","1",".","p","/","a","2","x","2",".","p"," ","/","a","1","x","1",".","p","/","a","-","1","x","1",".","p"," ","/","a","1","x","1",".","p","/","a","-","2","x","2",".","p">>,
       files |-> <<att_dir>>] }

Init ==
    /\ DbIdle
    /\ pc = "single"
    /\ \/ original \in Contents /\ files \in FileLists
       \/ \E sample \in RewriteSamples :
              original = sample.original /\ files = sample.files
    /\ content = original
    /\ fileIdx = 0
    /\ scanned = original
    /\ replacements = EmptyMap
    /\ pending = {}
    /\ fileNameEnd = Idle /\ ext = Idle /\ dimensions = Nil
    /\ s = Idle /\ substr = Idle /\ sRest = Idle /\ offset = 0 /\ indexes = <<>>
    /\ inPost = Idle /\ haveInBucket = Idle /\ good = FALSE /\ okDiff = -1

\* replaceContentSingle(content, &files[i]) up to the end of its first loop
CollectReplacements ==
    /\ pc = "single"
    /\ scanned' = content
    /\ replacements' = collectReplacements(content, files[fileIdx + 1])
    /\ pending' = DOMAIN replacements'
    /\ pc' = "replace"
    /\ UNCHANGED <<txVars, mainVars, original, files, fileIdx, content, scanVars, indexVars,
                   inPost, haveInBucket, good, okDiff>>

\* one iteration of "for origFile, newFile := range replacements": Go visits
\* the keys of a map in an order it does not specify
ReplaceOne ==
    /\ pc = "replace"
    /\ \E origFile \in pending :
          /\ content' = Replace(content, origFile, replacements[origFile])
          /\ pending' = pending \ {origFile}
    /\ UNCHANGED <<txVars, mainVars, pc, scanned, replacements, original, files, fileIdx, scanVars,
                   indexVars, inPost, haveInBucket, good, okDiff>>

\* return content, and the next iteration of "for i := range files"
ReturnContent ==
    /\ pc = "replace"
    /\ pending = {}
    /\ fileIdx' = fileIdx + 1
    /\ pc' = IF fileIdx + 1 < Len(files) THEN "single" ELSE "done"
    /\ UNCHANGED <<txVars, mainVars, scanned, replacements, pending, original, files, content, scanVars,
                   indexVars, inPost, haveInBucket, good, okDiff>>

Next == CollectReplacements \/ ReplaceOne \/ ReturnContent

Spec == Init /\ [][Next]_vars

(***************************************************************************)
(* What a pass of replaceContentSingle is to do with each reference, by    *)
(* the matcher's verdict on it.                                            *)
(***************************************************************************)
PassFile == files[fileIdx + 1]

PassDone == pc = "replace" /\ pending = {}

\* the offsets at which the pass looked for a reference
PassIndexes == stringIndexes(scanned, stem(PassFile))

RefCrop(k) ==
    getCropVariant(SliceFrom(scanned, PassIndexes[k] + Len(stem(PassFile))), PassFile.ext)

RefVerdict(k) == rangeCrops(RefCrop(k), PassFile.crops, 0, -1)

\* the text of the reference scanned at the k-th offset
RefLiteral(k) == stem(PassFile) \o <<"-">> \o RefCrop(k).str \o PassFile.ext

\* what is to stand in its place
RefTarget(k) ==
    IF RefVerdict(k).good THEN RefLiteral(k)
    ELSE IF RefVerdict(k).okDiff > -1
         THEN stem(PassFile) \o <<"-">> \o PassFile.crops[RefVerdict(k).okDiff + 1].str
                  \o PassFile.ext
         ELSE PassFile.fileName

\* the offset of the k-th reference in the output, after the references
\* before it were replaced
RECURSIVE Shift(_)
Shift(k) ==
    IF k = 0 THEN 0
    ELSE Shift(k - 1) +
         (IF RefCrop(k) = Nil THEN 0 ELSE Len(RefTarget(k)) - Len(RefLiteral(k)))

TargetInPlace(k) ==
    LET at == PassIndexes[k] + Shift(k - 1) IN
    SubSeq(content, at + 1, at + Len(RefTarget(k))) = RefTarget(k)

\* C6: after a pass, every reference that matches no known crop exactly but has
\* a known crop within the tolerance is replaced, in its place, by
\* stem "-" <dimension string of the selected crop> ext.
C6_CloseCropReplaces ==
    PassDone =>
        \A k \in 1..Len(PassIndexes) :
            (RefCrop(k) # Nil /\ ~RefVerdict(k).good /\ RefVerdict(k).okDiff > -1)
                => TargetInPlace(k)

\* C7: after a pass, every reference that has neither an exact nor a
\* within-tolerance known crop is replaced, in its place, by the attachment's
\* bare file name.
C7_FallsBackToBareName ==
    PassDone =>
        \A k \in 1..Len(PassIndexes) :
            (RefCrop(k) # Nil /\ ~RefVerdict(k).good /\ RefVerdict(k).okDiff = -1)
                => TargetInPlace(k)


(***************************************************************************)
(* replaceCrops as a whole: repetition, surroundings, order.               *)
(***************************************************************************)
\* the run ends with one of the texts replaceCrops can return
ReturnsAnOutput == pc = "done" => content \in replaceCrops(original, files)

\* C12: replaceCrops is idempotent: handed its own output and the same
\* attachment list, it returns that output unchanged.
C12_Idempotent == pc = "done" => replaceCrops(content, files) = {content}

\* the references of the pass that match no known crop exactly: those a
\* replacement rule is recorded for
StaleRefs ==
    {k \in 1..Len(PassIndexes) : RefCrop(k) # Nil /\ ~RefVerdict(k).good}

\* the 1-based position p of the pass's input lies inside such a reference
InStaleRef(p) ==
    \E k \in StaleRefs :
        PassIndexes[k] < p /\ p <= PassIndexes[k] + Len(RefLiteral(k))

\* the stretches of the pass's input outside those references, in order; gaps
\* holds the stretches before position p, the last one still open
RECURSIVE untouched(_, _)
untouched(p, gaps) ==
    IF p > Len(scanned) THEN gaps
    ELSE IF InStaleRef(p)
         THEN untouched(p + 1, IF p > 1 /\ InStaleRef(p - 1) THEN gaps
                               ELSE Append(gaps, <<>>))
         ELSE untouched(p + 1, [gaps EXCEPT ![Len(gaps)] = @ \o <<scanned[p]>>])

\* out is gaps[1] t1 gaps[2] t2 ... gaps[n] for some texts t1, t2, ...
RECURSIVE Fits(_, _)
Fits(out, gaps) ==
    IF Len(gaps) = 1 THEN out = gaps[1]
    ELSE /\ HasPrefix(out, gaps[1])
         /\ \E j \in Len(gaps[1])..Len(out) : Fits(SliceFrom(out, j), Tail(gaps))

\* C13: the output of a pass differs from its input only inside the spans of
\* the crop references that were to be replaced: every stretch of text
\* outside them is in the output, in order and unaltered.
C13_SurroundingsUntouched == PassDone => Fits(content, untouched(1, << <<>> >>))

\* no stem of fs is followed, anywhere in text, by a well-formed crop suffix
NoReference(text, fs) ==
    \A i \in 1..Len(fs), p \in 0..Len(text) :
        OccursAt(text, stem(fs[i]), p)
            => ~HasCropPrefix64(SliceFrom(text, p + Len(stem(fs[i]))), fs[i].ext)

\* C14: content in which no attachment's stem occurs, or in which every
\* occurrence of a stem is followed by something that is not a well-formed
\* crop suffix for that attachment's extension, is never changed.
C14_NoReferenceNoChange == NoReference(original, files) => content = original

\* a run has ended on content that names an attachment without referring to a
\* crop of it
C14_Witness ==
    /\ pc = "done"
    /\ NoReference(original, files)
    /\ \E i \in 1..Len(files), p \in 0..Len(original) :
           OccursAt(original, stem(files[i]), p)
    /\ content = original

\* C15: the passes of two attachments commute: what a run over [A, B] returns,
\* a run over [B, A] on the same content can return too.
C15_PassesCommute ==
    (pc = "done" /\ Len(files) = 2)
        => content \in replaceCrops(original, <<files[2], files[1]>>)

\* C16: for a given content and attachment list replaceCrops has a single
\* output, whatever the order in which the rules of an attachment are applied.
C16_SingleOutput == pc = "done" => replaceCrops(original, files) = {content}

\* C17: after a pass, no occurrence of a crop-reference literal for which a
\* rule was recorded remains in the content.
C17_NoStaleLiteralRemains ==
    PassDone =>
        \A k \in StaleRefs, p \in 0..Len(content) :
            ~OccursAt(content, RefLiteral(k), p)

(***************************************************************************)
(* replaceImageCrops: the write-back of the rewritten rows in one          *)
(* transaction.  Every call into database/sql either succeeds or fails.    *)
(* tx is "none" before db.Begin, then "open", and "committed",             *)
(* "commitFailed" or "rolledback" once tx.Commit or tx.Rollback was        *)
(* called.  update is "nil", "open" or "closed"; rows is "nil", "open",    *)
(* "failed" (the cursor stopped on an error, which rows.Err reports) or    *)
(* "closed".  The errors of update.Close, rows.Close and tx.Rollback are   *)
(* printed and change nothing.                                             *)
(***************************************************************************)
\* the row texts of the runs: no reference, a stale reference, a stale
\* reference next to the same name without its "-", and the latter for the
\* file name "/a.p"
PostPool ==
    { <<"a","b","c",".","p","n","g">>,
      <<"b","c","d","-","2","1","0","x","1","9","5",".","p","n","g">>,
      <<"b","c","d","2","1","0","x","1","9","5",".","p","n","g",
        "b","c","d","-","2","1","0","x","1","9","5",".","p","n","g">>,
      <<"/","a","1","x","1",".","p","/","a","-","1","x","1",".","p">> }

\* what the steps of replaceImageCrops leave alone
txFrame ==
    UNCHANGED <<scanVars, indexVars, matchVars, scanned, pending, original, files,
                fileIdx, posts, mainVars>>

InitTx ==
    /\ pc = "begin"
    /\ files \in FileLists
    /\ posts \in SeqsUpTo(PostPool, MaxPosts)
    /\ tx = "none" /\ update = "nil" /\ rows = "nil" /\ nextRow = 0
    /\ ID = 0 /\ got = Idle /\ execs = <<>> /\ err = "nil" /\ ret = "none"
    /\ guids = <<>> /\ nextGuid = 0 /\ attachments = <<>> /\ bucket = <<>>
    /\ listed = FALSE /\ invoked = FALSE
    /\ fileNameEnd = Idle /\ ext = Idle /\ dimensions = Nil
    /\ s = Idle /\ substr = Idle /\ sRest = Idle /\ offset = 0 /\ indexes = <<>>
    /\ inPost = Idle /\ haveInBucket = Idle /\ good = FALSE /\ okDiff = -1
    /\ replacements = <<>>
    /\ scanned = Idle /\ pending = {}
    /\ original = Idle /\ fileIdx = 0 /\ content = Idle

\* the closure rollback, followed by the caller's return of an error:
\* update.Close() is called first and unconditionally, and on a nil *sql.Stmt
\* it dereferences the nil pointer, which panics before rows.Close and
\* tx.Rollback are reached
rollback ==
    IF update = "nil"
    THEN /\ pc' = "panic"
         /\ UNCHANGED <<tx, update, rows, ret>>
    ELSE /\ update' = "closed"
         /\ rows' = IF rows = "nil" THEN "nil" ELSE "closed"
         /\ tx' = "rolledback"
         /\ ret' = "error"
         /\ pc' = "returned"

\* tx, err := db.Begin()
Begin ==
    /\ pc = "begin"
    /\ \/ /\ tx' = "open" /\ pc' = "prepare"
          /\ UNCHANGED <<err, ret>>
       \/ /\ err' = "begin" /\ ret' = "error" /\ pc' = "returned"
          /\ UNCHANGED tx
    /\ UNCHANGED <<update, rows, nextRow, ID, got, execs, content>>
    /\ txFrame

\* update, err = tx.Prepare(...)
Prepare ==
    /\ pc = "prepare"
    /\ \/ /\ update' = "open" /\ pc' = "query"
          /\ UNCHANGED <<tx, rows, err, ret>>
       \/ /\ err' = "prepare" /\ rollback
    /\ UNCHANGED <<nextRow, ID, got, execs, content>>
    /\ txFrame

\* rows, err = tx.Query(...)
Query ==
    /\ pc = "query"
    /\ \/ /\ rows' = "open" /\ pc' = "next"
          /\ UNCHANGED <<tx, update, err, ret>>
       \/ /\ err' = "query" /\ rollback
    /\ UNCHANGED <<nextRow, ID, got, execs, content>>
    /\ txFrame

\* for rows.Next(): true with the next row at hand, false at the end of the
\* rows or when the cursor fails
RowsNext ==
    /\ pc = "next"
    /\ \/ /\ nextRow < Len(posts)
          /\ nextRow' = nextRow + 1
          /\ pc' = "scan"
          /\ UNCHANGED rows
       \/ /\ nextRow = Len(posts)
          /\ pc' = "rowsErr"
          /\ UNCHANGED <<rows, nextRow>>
       \/ /\ rows' = "failed"
          /\ pc' = "rowsErr"
          /\ UNCHANGED nextRow
    /\ UNCHANGED <<tx, update, ID, got, execs, err, ret, content>>
    /\ txFrame

\* rows.Scan(&ID, &content)
RowsScan ==
    /\ pc = "scan"
    /\ \/ /\ ID' = nextRow /\ content' = posts[nextRow] /\ pc' = "replaceCrops"
          /\ UNCHANGED <<tx, update, rows, err, ret>>
       \/ /\ err' = "scan" /\ rollback
          /\ UNCHANGED <<ID, content>>
    /\ UNCHANGED <<nextRow, got, execs>>
    /\ txFrame

\* if got != content
needsUpdate_Always(new, old) == TRUE

needsUpdate(new, old) == new # old

\* got := replaceCrops(content, files) and the test of got against content
CallReplaceCrops ==
    /\ pc = "replaceCrops"
    /\ got' \in replaceCrops(content, files)
    /\ pc' = IF needsUpdate(got', content) THEN "exec" ELSE "next"
    /\ UNCHANGED <<tx, update, rows, nextRow, ID, execs, err, ret, content>>
    /\ txFrame

\* res, err := update.Exec(got, ID); affected is what res.RowsAffected will
\* report, not yet read
UpdateExec ==
    /\ pc = "exec"
    /\ \/ /\ execs' = Append(execs, [ID |-> ID, content |-> got, affected |-> -1])
          /\ pc' = "affected"
          /\ UNCHANGED <<tx, update, rows, err, ret>>
       \/ /\ err' = "exec" /\ rollback
          /\ UNCHANGED execs
    /\ UNCHANGED <<nextRow, ID, got, content>>
    /\ txFrame

\* affected, err := res.RowsAffected() and the test affected != 1
RowsAffected ==
    /\ pc = "affected"
    /\ \/ \E affected \in 0..2 :
             /\ execs' = [execs EXCEPT ![Len(execs)].affected = affected]
             /\ IF affected # 1
                THEN err' = "affected" /\ rollback
                ELSE pc' = "next" /\ UNCHANGED <<tx, update, rows, err, ret>>
       \/ /\ err' = "rowsAffected" /\ rollback
          /\ UNCHANGED execs
    /\ UNCHANGED <<nextRow, ID, got, content>>
    /\ txFrame

\* if err := rows.Err(); err != nil, and rows.Close() before the commit
RowsErr ==
    /\ pc = "rowsErr"
    /\ IF rows = "failed"
       THEN err' = "rows" /\ rollback
       ELSE /\ rows' = "closed" /\ pc' = "commit"
            /\ UNCHANGED <<tx, update, err, ret>>
    /\ UNCHANGED <<nextRow, ID, got, execs, content>>
    /\ txFrame

\* return tx.Commit()
Commit ==
    /\ pc = "commit"
    /\ \/ tx' = "committed" /\ ret' = "nil" /\ UNCHANGED err
       \/ tx' = "commitFailed" /\ ret' = "error" /\ err' = "commit"
    /\ pc' = "returned"
    /\ UNCHANGED <<update, rows, nextRow, ID, got, execs, content>>
    /\ txFrame

NextTx ==
    \/ Begin \/ Prepare \/ Query \/ RowsNext \/ RowsScan \/ CallReplaceCrops
    \/ UpdateExec \/ RowsAffected \/ RowsErr \/ Commit

SpecTx == InitTx /\ [][NextTx]_vars

\* replaceImageCrops has ended, by a return or by a panic
TxEnded == pc \in {"returned", "panic"}

\* tx.Commit, tx.Rollback was called
CommitExecuted == tx \in {"committed", "commitFailed"}

RollbackExecuted == tx = "rolledback"

\* C18: in every execution in which the transaction was begun exactly one of
\* commit and rollback is executed; commit only after every row was read and
\* every update reported exactly 1 affected row; on a failure of preparing,
\* querying, scanning, executing, reading rows-affected, on rows-affected # 1
\* and on a row-iteration error the transaction is rolled back, not
\* committed, and an error is returned.
C18_CommitOrRollback ==
    (TxEnded /\ tx # "none") =>
        /\ CommitExecuted # RollbackExecuted
        /\ CommitExecuted =>
              /\ nextRow = Len(posts)
              /\ \A k \in 1..Len(execs) : execs[k].affected = 1
        /\ err \in {"prepare", "query", "scan", "exec", "rowsAffected", "affected", "rows"}
              => RollbackExecuted /\ ret = "error"

\* C25: when tx.Prepare fails (update is nil) and when tx.Query fails (rows is
\* nil), the closure rollback dereferences neither and reaches tx.Rollback.
C25_RollbackSparesNil ==
    err \in {"prepare", "query"} => (pc # "panic" /\ RollbackExecuted)

\* the loop body for row r has run to its end without a failure
Handled(r) ==
    \/ r < nextRow
    \/ r = nextRow /\ pc \in {"next", "rowsErr", "commit"}
    \/ r = nextRow /\ pc = "returned" /\ CommitExecuted

Executed(r) == \E k \in 1..Len(execs) : execs[k].ID = r

\* C19: an UPDATE is executed for a row if and only if replaceCrops returned a
\* text different from the row's text, at most once per row and with exactly
\* the rewritten text; a row whose text replaceCrops returns unchanged is
\* never written.
C19_OnlyChangedRowsWritten ==
    /\ \A k \in 1..Len(execs) :
          /\ execs[k].ID \in 1..nextRow
          /\ execs[k].content \in replaceCrops(posts[execs[k].ID], files)
          /\ execs[k].content # posts[execs[k].ID]
    /\ \A j, k \in 1..Len(execs) : j # k => execs[j].ID # execs[k].ID
    /\ \A r \in 1..Len(posts) :
          (Handled(r) /\ posts[r] \notin replaceCrops(posts[r], files)) => Executed(r)

\* a run has been committed in which one row was written and one was not
C19_Witness ==
    /\ pc = "returned" /\ tx = "committed"
    /\ Len(posts) = 2
    /\ \E r \in 1..2 : Executed(r) /\ ~Executed(3 - r)

(***************************************************************************)
(* main from getAttachments on: the attachment rows are read, the bucket   *)
(* is listed, replaceImageCrops is called.  The flags have passed main's   *)
(* validation.                                                             *)
(***************************************************************************)
\* -guidprefix, which main requires to end with "/"
guidPrefix == <<"u", "/">>

\* guidPrefixTrimmed := (*guidPrefix)[:len(*guidPrefix)-1]
guidPrefixTrimmed == SubSeq(guidPrefix, 1, Len(guidPrefix) - 1)

\* -bucketprefix, empty under -nobucketprefix
bucketPrefix == <<>>

\* filepath.Ext(path): from the last "." of the last slash-separated element
RECURSIVE extFrom(_, _)
extFrom(path, i) ==
    IF i < 1 \/ path[i] = "/" THEN <<>>
    ELSE IF path[i] = "." THEN SubSeq(path, i, Len(path))
    ELSE extFrom(path, i - 1)

Ext(path) == extFrom(path, Len(path))

\* strings.TrimPrefix(str, prefix)
TrimPrefix(str, prefix) ==
    IF HasPrefix(str, prefix) THEN SliceFrom(str, Len(prefix)) ELSE str

\* the body of getAttachments' loop without the test of the guid's prefix
rangeRows_NoPrefixCheck(atts, guid) ==
    IF Ext(guid) = <<>> THEN [returns |-> FALSE, attachments |-> atts]
    ELSE [returns |-> FALSE,
          attachments |-> Append(atts, [fileName |-> TrimPrefix(guid, guidPrefixTrimmed),
                                        ext |-> Ext(guid), crops |-> <<>>])]

\* the body of getAttachments' loop after a successful rows.Scan: returns says
\* "return nil", else attachments is the slice after the iteration (the ID
\* of an attachment is not used after it is read and is left out)
rangeRows(atts, guid) ==
    IF Ext(guid) = <<>> THEN [returns |-> FALSE, attachments |-> atts]
    ELSE IF ~HasPrefix(guid, guidPrefix) THEN [returns |-> TRUE, attachments |-> <<>>]
    ELSE [returns |-> FALSE,
          attachments |-> Append(atts, [fileName |-> TrimPrefix(guid, guidPrefixTrimmed),
                                        ext |-> Ext(guid), crops |-> <<>>])]

\* the loop over it.Next() putting each crop found ahead of those found before
RECURSIVE rangeObjects_Prepend(_, _, _, _, _, _)
rangeObjects_Prepend(objs, k, fileName, prefix, e, crops) ==
    IF k > Len(objs) THEN crops
    ELSE IF fileName = objs[k]
         THEN rangeObjects_Prepend(objs, k + 1, fileName, prefix, e, crops)
    ELSE LET dims == getCropVariant(TrimPrefix(objs[k], prefix), e) IN
         rangeObjects_Prepend(objs, k + 1, fileName, prefix, e,
                              IF dims # Nil THEN <<dims>> \o crops ELSE crops)

\* the loop over it.Next() of checkStorageObjects for one attachment: the
\* crops appended for the objects objs[k..]
RECURSIVE rangeObjects(_, _, _, _, _, _)
rangeObjects(objs, k, fileName, prefix, e, crops) ==
    IF k > Len(objs) THEN crops
    ELSE IF fileName = objs[k] THEN rangeObjects(objs, k + 1, fileName, prefix, e, crops)
    ELSE LET dims == getCropVariant(TrimPrefix(objs[k], prefix), e) IN
         rangeObjects(objs, k + 1, fileName, prefix, e,
                      IF dims # Nil THEN Append(crops, dims) ELSE crops)

\* checkStorageObjects(handle, atts) when no listing fails: atts with the
\* crops filled in
checkStorageObjects(atts) ==
    [i \in 1..Len(atts) |->
        LET fileName == bucketPrefix \o atts[i].fileName
            prefix == SubSeq(fileName, 1, Len(fileName) - Len(atts[i].ext))
            objs == SelectSeq(bucket, LAMBDA name : HasPrefix(name, prefix))
        IN [atts[i] EXCEPT !.crops = rangeObjects(objs, 1, fileName, prefix, atts[i].ext,
                                                  atts[i].crops)]]

\* guids of attachment rows: two under the prefix, one with an extension
\* under another prefix, one without an extension under another prefix, one
\* without an extension under the prefix
GuidPool ==
    { <<"u","/","a",".","p">>, <<"u","/","b",".","p">>, <<"v","/","c",".","p">>, <<"v","/","d">>, <<"u","/","e">> }

\* the attachment rows: ID and guid are unique
GuidLists ==
    {gs \in SeqsUpTo(GuidPool, MaxGuids) :
        \A i \in 1..Len(gs), j \in 1..Len(gs) : i # j => gs[i] # gs[j]}

\* listings of the bucket, in the order of the object names; the last one
\* has two crops of /a.p, two names that are no crops, and not /a.p itself
BucketPool ==
    { <<>>,
      <<<<"/","a","-","1","x","1",".","p">>, <<"/","a",".","p">>>>,
      <<<<"/","a",".","p">>, <<"/","b",".","p">>>>,
      <<<<"/","a","-","1","x","1",".","p">>, <<"/","a","-","2","x","2",".","p">>, <<"/","a","-","x",".","p">>, <<"/","a","b",".","p">>>> }

\* the content rows of the runs of main
MainPosts ==
    { <<>>,
      <<<<"/","a","1","x","1",".","p","/","a","-","1","x","1",".","p">>>>,
      <<<<"/","a",".","p">>, <<"/","a","1","x","1",".","p","/","a","-","1","x","1",".","p">>>> }

\* what the steps of main and getAttachments leave alone
mainFrame ==
    UNCHANGED <<scanVars, indexVars, matchVars, scanned, pending, original, fileIdx,
                content, txVars, guids, bucket>>

InitMain ==
    /\ pc = "count"
    /\ guids \in GuidLists
    /\ bucket \in BucketPool
    /\ posts \in MainPosts
    /\ nextGuid = 0 /\ attachments = <<>> /\ listed = FALSE /\ invoked = FALSE
    /\ tx = "none" /\ update = "nil" /\ rows = "nil" /\ nextRow = 0
    /\ ID = 0 /\ got = Idle /\ execs = <<>> /\ err = "nil" /\ ret = "none"
    /\ fileNameEnd = Idle /\ ext = Idle /\ dimensions = Nil
    /\ s = Idle /\ substr = Idle /\ sRest = Idle /\ offset = 0 /\ indexes = <<>>
    /\ inPost = Idle /\ haveInBucket = Idle /\ good = FALSE /\ okDiff = -1
    /\ replacements = <<>>
    /\ scanned = Idle /\ pending = {}
    /\ original = Idle /\ files = <<>> /\ fileIdx = 0 /\ content = Idle

\* getAttachments: SELECT COUNT(*), which fails, counts no row, or counts some
CountRows ==
    /\ pc = "count"
    /\ \/ pc' = "main"
       \/ Len(guids) = 0 /\ pc' = "main"
       \/ Len(guids) > 0 /\ pc' = "attQuery"
    /\ UNCHANGED <<files, nextGuid, attachments, listed, invoked>>
    /\ mainFrame

\* getAttachments: rows, err := db.Query(...)
QueryRows ==
    /\ pc = "attQuery"
    /\ \/ pc' = "attNext"
       \/ pc' = "main"
    /\ UNCHANGED <<files, nextGuid, attachments, listed, invoked>>
    /\ mainFrame

\* getAttachments: for rows.Next(), true with the next row at hand; false at
\* the end of the rows or when the cursor fails, and then rows.Err() is only
\* printed and attachments is returned as it stands
NextRow ==
    /\ pc = "attNext"
    /\ \/ /\ nextGuid < Len(guids)
          /\ nextGuid' = nextGuid + 1
          /\ pc' = "attScan"
       \/ /\ pc' = "main"
          /\ UNCHANGED nextGuid
    /\ UNCHANGED <<files, attachments, listed, invoked>>
    /\ mainFrame

\* getAttachments: rows.Scan, which fails ("return nil") or is followed by the
\* rest of the loop body
ScanRow ==
    /\ pc = "attScan"
    /\ \/ /\ attachments' = <<>>
          /\ pc' = "main"
       \/ /\ attachments' = rangeRows(attachments, guids[nextGuid]).attachments
          /\ pc' = IF rangeRows(attachments, guids[nextGuid]).returns THEN "main"
                   ELSE "attNext"
    /\ UNCHANGED <<files, nextGuid, listed, invoked>>
    /\ mainFrame

\* main: if len(attachments) == 0 { ...; return }
NoAttachments ==
    /\ pc = "main"
    /\ pc' = IF Len(attachments) = 0 THEN "exit" ELSE "client"
    /\ UNCHANGED <<files, nextGuid, attachments, listed, invoked>>
    /\ mainFrame

\* main: storage.NewClient, and return if it fails
NewClient ==
    /\ pc = "client"
    /\ \/ pc' = "storage"
       \/ pc' = "exit"
    /\ UNCHANGED <<files, nextGuid, attachments, listed, invoked>>
    /\ mainFrame

\* main: checkStorageObjects(bucketHandle, attachments), and return if a
\* listing fails (the crops collected before the failure are not used again)
CheckStorageObjects ==
    /\ pc = "storage"
    /\ listed' = TRUE
    /\ \/ /\ attachments' = checkStorageObjects(attachments)
          /\ pc' = "call"
       \/ /\ pc' = "exit"
          /\ UNCHANGED attachments
    /\ UNCHANGED <<files, nextGuid, invoked>>
    /\ mainFrame

\* main: err = replaceImageCrops(db, *postType, attachments)
CallReplaceImageCrops ==
    /\ pc = "call"
    /\ files' = attachments
    /\ invoked' = TRUE
    /\ pc' = "begin"
    /\ UNCHANGED <<nextGuid, attachments, listed>>
    /\ mainFrame

NextMain ==
    \/ CountRows \/ QueryRows \/ NextRow \/ ScanRow \/ NoAttachments \/ NewClient
    \/ CheckStorageObjects \/ CallReplaceImageCrops \/ NextTx

SpecMain == InitMain /\ [][NextMain]_vars

\* the guid of the k-th attachment row does not begin with the guid prefix
BadPrefix(k) == ~HasPrefix(guids[k], guidPrefix)

\* the loop body of getAttachments has run for the k-th row
RowRead(k) == k < nextGuid \/ (k = nextGuid /\ pc # "attScan")

\* the run is over, or is left to end, with no attachments, no listing of the
\* bucket, no call of replaceImageCrops and no row updated
AbortedBeforeRewriting ==
    /\ pc \in {"main", "exit"}
    /\ attachments = <<>>
    /\ ~listed /\ ~invoked /\ execs = <<>>

StoragePrefix(i) == bucketPrefix \o stem(attachments[i])

Listed(i) == SelectSeq(bucket, LAMBDA name : HasPrefix(name, StoragePrefix(i)))

\* what follows the storage prefix in the k-th of them
NameEnd(i, k) == TrimPrefix(Listed(i)[k], StoragePrefix(i))

\* the positions in the listing of the names that are crops of the i-th
\* attachment: not its own file name, and a well-formed crop suffix
CropsListed(i) ==
    {k \in 1..Len(Listed(i)) :
        /\ Listed(i)[k] # bucketPrefix \o attachments[i].fileName
        /\ HasCropPrefix64(NameEnd(i, k), attachments[i].ext)}

\* checkStorageObjects has returned nil
StorageChecked == pc = "call" \/ invoked

\* C22: after checkStorageObjects returns nil, the crops of each attachment
\* are, in listing order and with nothing else, the crops of the listed names
\* that are not the attachment's own file name and carry a well-formed crop
\* suffix; whether the own file is listed makes no difference.
C22_CropsAsListed ==
    StorageChecked =>
        \A i \in 1..Len(attachments) :
            /\ Len(attachments[i].crops) = Cardinality(CropsListed(i))
            /\ \A k \in CropsListed(i) :
                  LET c == attachments[i].crops[Cardinality({j \in CropsListed(i) : j <= k})]
                      e == attachments[i].ext
                  IN \E a \in 1..Len(NameEnd(i, k)), b \in 1..Len(NameEnd(i, k)) :
                        /\ CropPrefix(NameEnd(i, k), e, a, b)
                        /\ c.str = SubSeq(NameEnd(i, k), 2, b)
                        /\ c.width = Base10(SubSeq(NameEnd(i, k), 2, a))
                        /\ c.height = Base10(SubSeq(NameEnd(i, k), a + 2, b))

\* the bucket was listed for an attachment whose own file is missing, two
\* crops of it were found and two names were passed over
C22_Witness ==
    /\ pc = "call"
    /\ \E i \in 1..Len(attachments) :
          /\ Len(attachments[i].crops) = 2
          /\ attachments[i].crops[1] # attachments[i].crops[2]
          /\ Len(Listed(i)) = 4
          /\ \A k \in 1..4 : Listed(i)[k] # bucketPrefix \o attachments[i].fileName

\* C23: every rule a pass records has as its key the text scanned at a
\* located occurrence, stem "-" <dimension string> ext, which stands in the
\* pass's input at the offset where the stem was found; and every reference
\* to be replaced has its rule.
C23_KeyIsScannedText ==
    pc = "replace" =>
        /\ \A old \in DOMAIN replacements :
              \E k \in StaleRefs :
                  old = RefLiteral(k) /\ OccursAt(scanned, old, PassIndexes[k])
        /\ \A k \in StaleRefs : RefLiteral(k) \in DOMAIN replacements

\* C24: every reference a pass leaves in place as an exact match is the file
\* name of a known crop byte for byte: stem "-" c.str ext for a known crop c.
C24_ExactMatchIsByteIdentical ==
    PassDone =>
        \A k \in 1..Len(PassIndexes) :
            (RefCrop(k) # Nil /\ RefVerdict(k).good) =>
                \E j \in 1..Len(PassFile.crops) :
                    RefLiteral(k) = stem(PassFile) \o <<"-">> \o PassFile.crops[j].str
                                        \o PassFile.ext

\* getAttachments has returned a non-empty slice without having been handed
\* every row: its cursor ended on an error after some attachments were read
\* (a failed rows.Scan and a guid under another prefix return no attachments)
CursorFailedAfterRead ==
    /\ pc \notin {"count", "attQuery", "attNext", "attScan"}
    /\ nextGuid < Len(guids)
    /\ attachments # <<>>

\* C26: if the row cursor of getAttachments ends with an error after some
\* attachments were read, the bucket is not listed for the partial list,
\* replaceImageCrops is not called and no row is updated.
C26_CursorFailureStopsRun ==
    CursorFailedAfterRead => (~listed /\ ~invoked /\ execs = <<>>)

=============================================================================
